---- MODULE Spec2Model ----
(***************************************************************************)
(* A model of the structural value codec of src/rpc/serializers.ts:        *)
(* serializeValue (the encoder, a depth-first walk with a visited set and  *)
(* a caller-supplied handle resolver), parseSerializedValue (the decoder)  *)
(* and the error adapter serializeError / parseError.                      *)
(*                                                                         *)
(* Native values are records: a primitive or leaf object carries its kind  *)
(* in t and its content in v; an array or plain object is a reference      *)
(* [t |-> "ref", id |-> i] into heap, so that object identity (sharing and *)
(* cycles) is part of the state.  Tagged (wire) values are records with    *)
(* exactly the optional fields of SerializedValue: n, s, b, v, d, r, a, o, *)
(* h; "field is not undefined" is "field \in DOMAIN".                      *)
(***************************************************************************)
EXTENDS Integers, Sequences, FiniteSets, TLC

\* Bounds of the model.
MaxEdges == 2       \* array elements + object properties in the value graph
MaxHandle == 1      \* largest handle index a resolver hands out

VARIABLES
  profile,           \* which inputs the caller draws from: "values" or "graphs"
  heap,              \* the arrays and plain objects built by the caller
  pc,                \* where the caller is: idle, encoding, returned, thrown, ...
  caller,            \* "serializeValue" (direct call) or "serializeError"
  root,              \* the value handed to the top-level call
  handleSerializer,  \* the resolver passed in: "fallThrough" or "handles"
  pushed,            \* how many handles that resolver has handed out in this call
  visited,           \* the Set<any> passed to serializeValue
  startedEmpty,      \* whether visited was empty when the top-level call began
  stack,             \* the call stack of serializeValue invocations
  result,            \* what the top-level serializeValue returned or threw
  serialized,        \* the SerializedError produced by serializeError
  wire,              \* the SerializedValue handed to parseSerializedValue
  handles,           \* the handle table handed to parseSerializedValue
  decoded            \* what parseSerializedValue / parseError returned or threw

vars == <<profile, heap, pc, caller, root, handleSerializer, pushed, visited, startedEmpty,
          stack, result, serialized, wire, handles, decoded>>

None == [t |-> "none"]

----------------------------------------------------------------------------
\* Native values.

Undefined == [t |-> "undefined", v |-> "undefined"]
Null == [t |-> "null", v |-> "null"]
Num(x) == [t |-> "number", v |-> x]
Str(x) == [t |-> "string", v |-> x]
Bool(x) == [t |-> "boolean", v |-> x]
\* A Date is its time value: milliseconds since the epoch, or NaN (Invalid Date).
DateOf(ms) == [t |-> "date", v |-> ms]
RegExpOf(p, f) == [t |-> "regexp", v |-> p, f |-> f]
ErrorOf(kind, message, stk) ==
  [t |-> "error", kind |-> kind, name |-> kind, message |-> message, stack |-> stk]
Ref(i) == [t |-> "ref", id |-> i]

Numbers == {Num(x) : x \in {"NaN", "Infinity", "-Infinity", "-0", "0", "1"}}
Strings == {Str(""), Str("a")}
Booleans == {Bool("true"), Bool("false")}
Dates == {DateOf("NaN"), DateOf("0"), DateOf("1577836800000")}
RegExps == {RegExpOf("a+", "gi")}
Errors == {ErrorOf("Error", "boom", "Error: boom\n    at f"),
           ErrorOf("TimeoutError", "slow", "TimeoutError: slow\n    at g")}
Symbols == {[t |-> "symbol", v |-> "Symbol(x)"]}
Functions == {[t |-> "function", v |-> "f"]}

\* The values the round trip is claimed for (besides arrays and plain objects).
PlainLeaves == Numbers \cup Strings \cup Booleans \cup {Null, Undefined}
                 \cup Dates \cup RegExps
Leaves == PlainLeaves \cup Errors \cup Symbols \cup Functions

\* The caller draws its inputs from one of two families: every kind of leaf
\* in graphs of at most MaxEdges edges ("values"), or a few kinds of leaf in
\* graphs of one more edge ("graphs").
GraphLeaves == {Num("1")} \cup Functions
LeafPool(pr) == IF pr = "values" THEN Leaves ELSE GraphLeaves
EdgeBound(pr) == IF pr = "values" THEN MaxEdges ELSE MaxEdges + 1

IsRef(value) == value.t = "ref"
Kids(hp, value) == hp[value.id].kids
\* Object.keys(value): the j-th own property of a plain object.
KeyName(j) == "k" \o ToString(j)

Edges(hp) == LET RECURSIVE Sum(_)
                 Sum(i) == IF i = 0 THEN 0 ELSE Len(hp[i].kids) + Sum(i - 1)
             IN Sum(Len(hp))

----------------------------------------------------------------------------
\* serializeValue, lines 217-275.

Returned(tv) == [kind |-> "return", tv |-> tv]
Thrown(msg) == [kind |-> "throw", msg |-> msg]
Descend == [kind |-> "descend"]

\* Date.prototype.toJSON: the ISO string of a valid time value, null otherwise.
JsonNull == "#null"
ToJSON(ms) ==
  CASE ms = "0" -> "1970-01-01T00:00:00.000Z"
    [] ms = "1577836800000" -> "2020-01-01T00:00:00.000Z"
    [] OTHER -> JsonNull

\* 'captureStackTrace' in global.Error (line 248): true on v8.
HasCaptureStackTrace == TRUE

\* Line 224: visited.has(value); only arrays and objects are ever added.
VisitedHasNothing(vis, value) == FALSE
VisitedHas(vis, value) == IsRef(value) /\ value.id \in vis
\* Lines 260, 268: visited.add(value).
VisitedAddNothing(vis, value) == vis
VisitedAdd(vis, value) == vis \cup {value.id}
\* Lines 263, 271: visited.delete(value).
VisitedDeleteNothing(vis, value) == vis
VisitedDelete(vis, value) == vis \ {value.id}

\* Line 274: no classification matched.
BackstopUndefined == Returned([v |-> "undefined"])
Backstop == Thrown("Unexpected value")

\* Lines 226-274: the classification chain, for a value that is not in visited.
Classify(value, hp) ==
  IF value.t = "symbol" THEN Returned([v |-> "undefined"])
  ELSE IF value.t = "undefined" THEN Returned([v |-> "undefined"])
  ELSE IF value.t = "null" THEN Returned([v |-> "null"])
  ELSE IF value.t = "number" /\ value.v = "NaN" THEN Returned([v |-> "NaN"])
  ELSE IF value.t = "number" /\ value.v = "Infinity" THEN Returned([v |-> "Infinity"])
  ELSE IF value.t = "number" /\ value.v = "-Infinity" THEN Returned([v |-> "-Infinity"])
  ELSE IF value.t = "number" /\ value.v = "-0" THEN Returned([v |-> "-0"])
  ELSE IF value.t = "boolean" THEN Returned([b |-> value.v])
  ELSE IF value.t = "number" THEN Returned([n |-> value.v])
  ELSE IF value.t = "string" THEN Returned([s |-> value.v])
  ELSE IF value.t = "error" THEN
    IF HasCaptureStackTrace
    THEN Returned([s |-> value.stack])
    ELSE Returned([s |-> value.name \o ": " \o value.message \o "\n" \o value.stack])
  ELSE IF value.t = "date" THEN Returned([d |-> ToJSON(value.v)])
  ELSE IF value.t = "regexp" THEN Returned([r |-> [p |-> value.v, f |-> value.f]])
  ELSE IF IsRef(value) /\ hp[value.id].t = "array" THEN Descend
  ELSE IF IsRef(value) /\ hp[value.id].t = "object" THEN Descend
  ELSE Backstop

\* Lines 218-274 of one invocation, up to its first recursive call: what the
\* invocation does with the resolver's answer.
OutcomeCycleCheckFirst(value, handle, vis, hp) ==
  IF VisitedHas(vis, value)
  THEN Thrown("Argument is a circular structure")
  ELSE IF "fallThrough" \notin DOMAIN handle
       THEN Returned(handle)
       ELSE Classify(handle.fallThrough, hp)
Outcome(value, handle, vis, hp) ==
  IF "fallThrough" \notin DOMAIN handle
  THEN Returned(handle)
  ELSE IF VisitedHas(vis, handle.fallThrough)
       THEN Thrown("Argument is a circular structure")
       ELSE Classify(handle.fallThrough, hp)

\* What a resolver may answer for a value (type HandleOrValue): serializeError's
\* resolver always falls through; a caller's resolver may instead push an object
\* on its handle table and answer with the index, n handles having been pushed.
Primitives == {"number", "string", "boolean", "null", "undefined", "symbol"}
ResolverAnswers(hs, value, n) ==
  IF hs = "fallThrough" \/ n > MaxHandle \/ value.t \in Primitives
  THEN {[fallThrough |-> value]}
  ELSE {[fallThrough |-> value], [h |-> n]}

NewFrame(value) == [value |-> value, at |-> "entry", handle |-> None, i |-> 0, a |-> <<>>]

----------------------------------------------------------------------------
\* parseSerializedValue, lines 175-214.

Ok(x) == [ok |-> x]
Err(msg) == [err |-> msg]
IsOk(r) == "ok" \in DOMAIN r

NoTable == [defined |-> FALSE]
Table(seq) == [defined |-> TRUE, table |-> seq]
\* The native objects a handle table holds.
Remote(k) == [t |-> "remote", v |-> ToString(k)]

SpecialNames == {"undefined", "null", "NaN", "Infinity", "-Infinity", "-0"}
\* Lines 183-194.
Special(name) ==
  CASE name = "undefined" -> Undefined
    [] name = "null" -> Null
    [] OTHER -> Num(name)

\* new Date(d): null converts to the number 0; a string is parsed.
NewDate(d) ==
  CASE d = JsonNull -> DateOf("0")
    [] d = "1970-01-01T00:00:00.000Z" -> DateOf("0")
    [] d = "2020-01-01T00:00:00.000Z" -> DateOf("1577836800000")
    [] OTHER -> DateOf("NaN")

\* Lines 209-211: handles[value.h], undefined beyond the table's end.
HandleLookupLenient(tbl, k) ==
  IF ~tbl.defined
  THEN Ok(Undefined)
  ELSE Ok(IF k + 1 \in DOMAIN tbl.table THEN tbl.table[k + 1] ELSE Undefined)
HandleLookup(tbl, k) ==
  IF ~tbl.defined
  THEN Err("Unexpected handle")
  ELSE Ok(IF k + 1 \in DOMAIN tbl.table THEN tbl.table[k + 1] ELSE Undefined)

\* Line 213.
NoAlternativeDefault == Ok(Undefined)
NoAlternative == Err("Unexpected value")

\* result[k] = v on the object under construction (line 205): a later
\* duplicate key overwrites the earlier value.
ObjectSet(props, k, v) ==
  IF \E j \in DOMAIN props : props[j].k = k
  THEN [j \in DOMAIN props |-> IF props[j].k = k THEN [k |-> k, v |-> v] ELSE props[j]]
  ELSE Append(props, [k |-> k, v |-> v])

ArrayOf(elems) == [t |-> "array", e |-> elems]
ObjectOf(props) == [t |-> "object", p |-> props]

RECURSIVE parseSerializedValue(_, _), ParseElements(_, _, _), ParseProperties(_, _, _)

parseSerializedValue(value, tbl) ==
  IF "n" \in DOMAIN value THEN Ok(Num(value.n))
  ELSE IF "s" \in DOMAIN value THEN Ok(Str(value.s))
  ELSE IF "b" \in DOMAIN value THEN Ok(Bool(value.b))
  ELSE IF "v" \in DOMAIN value /\ value.v \in SpecialNames THEN Ok(Special(value.v))
  ELSE IF "d" \in DOMAIN value THEN Ok(NewDate(value.d))
  ELSE IF "r" \in DOMAIN value THEN Ok(RegExpOf(value.r.p, value.r.f))
  ELSE IF "a" \in DOMAIN value THEN ParseElements(value.a, tbl, <<>>)
  ELSE IF "o" \in DOMAIN value THEN ParseProperties(value.o, tbl, <<>>)
  ELSE IF "h" \in DOMAIN value THEN HandleLookup(tbl, value.h)
  ELSE NoAlternative

\* value.a.map(...), line 201: the first element that throws ends the map.
ParseElements(rest, tbl, acc) ==
  IF rest = <<>>
  THEN Ok(ArrayOf(acc))
  ELSE LET r == parseSerializedValue(Head(rest), tbl)
       IN IF IsOk(r) THEN ParseElements(Tail(rest), tbl, Append(acc, r.ok)) ELSE r

\* The loop of lines 204-205.
ParseProperties(rest, tbl, acc) ==
  IF rest = <<>>
  THEN Ok(ObjectOf(acc))
  ELSE LET r == parseSerializedValue(Head(rest).v, tbl)
       IN IF IsOk(r)
          THEN ParseProperties(Tail(rest), tbl, ObjectSet(acc, Head(rest).k, r.ok))
          ELSE r

----------------------------------------------------------------------------
\* serializeError / parseError, lines 26-46.

\* helper.isError
HelperIsError(e) == e.t = "error"

\* Lines 33-45.
parseError(error) ==
  IF "error" \notin DOMAIN error
  THEN IF "value" \notin DOMAIN error
       THEN Err("Serialized error must have either an error or a value")
       ELSE parseSerializedValue(error.value, NoTable)
  ELSE IF error.error.name = "TimeoutError"
       THEN Ok(ErrorOf("TimeoutError", error.error.message, error.error.stack))
       ELSE Ok(ErrorOf("Error", error.error.message, error.error.stack))

----------------------------------------------------------------------------
\* The tagged values a peer can put on the wire, well formed or not: a leaf,
\* or an array or object grown one element or pair at a time.

WireKeys == {"k1", "k2"}
WireLeaves ==
  {[n |-> "0"], [s |-> ""], [b |-> "false"]}
    \cup {[v |-> x] : x \in SpecialNames \cup {"bogus"}}
    \cup {[d |-> "2020-01-01T00:00:00.000Z"], [r |-> [p |-> "a+", f |-> "gi"]]}
    \cup {[h |-> k] : k \in 0..MaxHandle}
    \cup {[x |-> "unknown"]}
GraphWireLeaves == {[n |-> "0"], [h |-> 0], [x |-> "unknown"]}
WireItems(pr) ==
  (IF pr = "values" THEN WireLeaves ELSE GraphWireLeaves) \cup {[a |-> <<>>], [o |-> <<>>]}

\* The children of a tagged value, in order.
WireChildren(tv) ==
  IF "a" \in DOMAIN tv THEN tv.a
  ELSE IF "o" \in DOMAIN tv THEN [j \in DOMAIN tv.o |-> tv.o[j].v]
  ELSE <<>>

RECURSIVE WireEdges(_), WireSumEdges(_), WirePaths(_), WireAppend(_, _, _, _)
WireSumEdges(q) == IF q = <<>> THEN 0 ELSE 1 + WireEdges(Head(q)) + WireSumEdges(Tail(q))
WireEdges(tv) == WireSumEdges(WireChildren(tv))

\* The positions of the arrays and objects inside a tagged value.
WirePaths(tv) ==
  IF "a" \in DOMAIN tv \/ "o" \in DOMAIN tv
  THEN {<<>>} \cup UNION {{<<j>> \o q : q \in WirePaths(WireChildren(tv)[j])}
                            : j \in DOMAIN WireChildren(tv)}
  ELSE {}

\* tv with item (under key, in an object) added at the end of the array or
\* object at position path.
WireAppend(tv, path, key, item) ==
  IF path = <<>>
  THEN IF "a" \in DOMAIN tv
       THEN [a |-> Append(tv.a, item)]
       ELSE [o |-> Append(tv.o, [k |-> key, v |-> item])]
  ELSE IF "a" \in DOMAIN tv
       THEN [a |-> [tv.a EXCEPT ![Head(path)] = WireAppend(@, Tail(path), key, item)]]
       ELSE [o |-> [tv.o EXCEPT ![Head(path)] =
                      [k |-> @.k, v |-> WireAppend(@.v, Tail(path), key, item)]]]

\* No table, or one that holds an object for every index handed out.
FullTable == Table([j \in 1..(MaxHandle + 1) |-> Remote(j - 1)])
Tables == {NoTable, FullTable}

----------------------------------------------------------------------------
\* The state machine.

Start ==
  /\ heap = <<>>
  /\ pc = "idle"
  /\ caller = "none"
  /\ root = None
  /\ handleSerializer = "fallThrough"
  /\ pushed = 0
  /\ visited = {}
  /\ startedEmpty = TRUE
  /\ stack = <<>>
  /\ result = None
  /\ serialized = None
  /\ wire = None
  /\ handles = NoTable
  /\ decoded = None

\* The caller builds the value graph: const o = [] or {} ...
NewContainer ==
  /\ pc = "idle"
  /\ heap = <<>>
  /\ \E kind \in {"array", "object"} : heap' = <<[t |-> kind, kids |-> <<>>]>>
  /\ UNCHANGED <<profile, pc, caller, root, handleSerializer, pushed, visited, startedEmpty,
                 stack, result, serialized, wire, handles, decoded>>

\* ... c.push(child) or c[key] = child, the child a leaf or an existing container ...
AddChild ==
  /\ pc = "idle"
  /\ Edges(heap) < EdgeBound(profile)
  /\ \E c \in DOMAIN heap, child \in LeafPool(profile) \cup {Ref(i) : i \in DOMAIN heap} :
       heap' = [heap EXCEPT ![c].kids = Append(@, child)]
  /\ UNCHANGED <<profile, pc, caller, root, handleSerializer, pushed, visited, startedEmpty,
                 stack, result, serialized, wire, handles, decoded>>

\* ... or a fresh array or object.
AddNewChild ==
  /\ pc = "idle"
  /\ Edges(heap) < EdgeBound(profile)
  /\ \E c \in DOMAIN heap, kind \in {"array", "object"} :
       heap' = Append([heap EXCEPT ![c].kids = Append(@, Ref(Len(heap) + 1))],
                      [t |-> kind, kids |-> <<>>])
  /\ UNCHANGED <<profile, pc, caller, root, handleSerializer, pushed, visited, startedEmpty,
                 stack, result, serialized, wire, handles, decoded>>

\* The values a top-level call is made on: the graph built, or a lone leaf.
Roots == IF heap = <<>> THEN LeafPool(profile) ELSE {Ref(1)}

\* A top-level call serializeValue(v, hs, visited); the caller reuses its set.
SerializeValue ==
  /\ pc \in {"idle", "returned", "thrown"}
  /\ caller # "serializeError"
  /\ pc' = "encoding"
  /\ caller' = "serializeValue"
  /\ \E v \in Roots :
       /\ root' = v
       /\ stack' = <<NewFrame(v)>>
  /\ handleSerializer' \in {"fallThrough", "handles"}
  /\ pushed' = 0
  /\ startedEmpty' = (visited = {})
  /\ result' = None
  /\ UNCHANGED <<profile, heap, visited, serialized, wire, handles, decoded>>

\* serializeError(e), lines 26-30.
SerializeError ==
  /\ pc = "idle"
  /\ caller' = "serializeError"
  /\ \E e \in Roots :
       /\ root' = e
       /\ IF HelperIsError(e)
          THEN /\ serialized' = [error |-> [message |-> e.message, stack |-> e.stack,
                                            name |-> e.name]]
               /\ pc' = "errorSerialized"
               /\ UNCHANGED <<handleSerializer, pushed, visited, startedEmpty, stack>>
          ELSE /\ pc' = "encoding"
               /\ handleSerializer' = "fallThrough"
               /\ pushed' = 0
               /\ visited' = {}
               /\ startedEmpty' = TRUE
               /\ stack' = <<NewFrame(e)>>
               /\ UNCHANGED serialized
  /\ UNCHANGED <<profile, heap, result, wire, handles, decoded>>

Top == stack[Len(stack)]

\* Line 218: the invocation consults the resolver.
CallHandleSerializer ==
  /\ pc = "encoding"
  /\ Top.at = "entry"
  /\ \E handle \in ResolverAnswers(handleSerializer, Top.value, pushed) :
       /\ stack' = [stack EXCEPT ![Len(stack)] =
                      [@ EXCEPT !.handle = handle, !.at = "resolved"]]
       /\ pushed' = IF "h" \in DOMAIN handle THEN pushed + 1 ELSE pushed
  /\ UNCHANGED <<profile, heap, pc, caller, root, handleSerializer, visited, startedEmpty,
                 result, serialized, wire, handles, decoded>>

\* The top invocation returns tv: to the loop of its caller (lines 262, 270),
\* or out of the top-level call.
Return(tv) ==
  IF Len(stack) = 1
  THEN /\ stack' = <<>>
       /\ result' = Returned(tv)
       /\ IF caller = "serializeError"
          THEN serialized' = [value |-> tv] /\ pc' = "errorSerialized"
          ELSE pc' = "returned" /\ UNCHANGED serialized
  ELSE LET parent == stack[Len(stack) - 1]
           item == IF heap[parent.value.id].t = "array"
                   THEN tv
                   ELSE [k |-> KeyName(parent.i + 1), v |-> tv]
       IN /\ stack' = Append(SubSeq(stack, 1, Len(stack) - 2),
                             [parent EXCEPT !.a = Append(@, item), !.i = @ + 1])
          /\ UNCHANGED <<pc, result, serialized>>

\* The top invocation throws: nothing on the stack catches.
Throw(msg) ==
  /\ stack' = <<>>
  /\ result' = Thrown(msg)
  /\ pc' = "thrown"
  /\ UNCHANGED serialized

\* Lines 219-274 up to the first recursive call.
AfterResolve ==
  /\ pc = "encoding"
  /\ Top.at = "resolved"
  /\ LET out == Outcome(Top.value, Top.handle, visited, heap)
     IN CASE out.kind = "return" -> Return(out.tv) /\ UNCHANGED visited
          [] out.kind = "throw" -> Throw(out.msg) /\ UNCHANGED visited
          [] OTHER ->
               /\ visited' = VisitedAdd(visited, Top.handle.fallThrough)
               /\ stack' = [stack EXCEPT ![Len(stack)] =
                              [@ EXCEPT !.value = Top.handle.fallThrough, !.at = "loop"]]
               /\ UNCHANGED <<pc, result, serialized>>
  /\ UNCHANGED <<profile, heap, caller, root, handleSerializer, pushed, startedEmpty, wire, handles, decoded>>

\* Lines 261-262 and 269-270: the recursive call on the next child.
CallChild ==
  /\ pc = "encoding"
  /\ Top.at = "loop"
  /\ Top.i < Len(Kids(heap, Top.value))
  /\ stack' = Append(stack, NewFrame(Kids(heap, Top.value)[Top.i + 1]))
  /\ UNCHANGED <<profile, heap, pc, caller, root, handleSerializer, pushed, visited, startedEmpty,
                 result, serialized, wire, handles, decoded>>

\* Lines 263-264 and 271-272: the children are done.
FinishContainer ==
  /\ pc = "encoding"
  /\ Top.at = "loop"
  /\ Top.i >= Len(Kids(heap, Top.value))
  /\ visited' = VisitedDelete(visited, Top.value)
  /\ Return(IF heap[Top.value.id].t = "array" THEN [a |-> Top.a] ELSE [o |-> Top.a])
  /\ UNCHANGED <<profile, heap, caller, root, handleSerializer, pushed, startedEmpty, wire, handles, decoded>>

\* A peer starts a tagged value ...
WireNew ==
  /\ pc = "idle"
  /\ heap = <<>>
  /\ wire' \in WireItems(profile)
  /\ pc' = "received"
  /\ UNCHANGED <<profile, heap, caller, root, handleSerializer, pushed, visited, startedEmpty,
                 stack, result, serialized, handles, decoded>>

\* ... and grows it.
WireAdd ==
  /\ pc = "received"
  /\ WireEdges(wire) < EdgeBound(profile)
  /\ \E path \in WirePaths(wire), key \in WireKeys, item \in WireItems(profile) :
       wire' = WireAppend(wire, path, key, item)
  /\ UNCHANGED <<profile, heap, pc, caller, root, handleSerializer, pushed, visited, startedEmpty,
                 stack, result, serialized, handles, decoded>>

\* parseSerializedValue on what arrived, with or without a handle table.
ParseReceived ==
  /\ pc = "received"
  /\ handles' \in Tables
  /\ decoded' = parseSerializedValue(wire, handles')
  /\ pc' = "parsed"
  /\ UNCHANGED <<profile, heap, caller, root, handleSerializer, pushed, visited, startedEmpty,
                 stack, result, serialized, wire>>

\* parseSerializedValue on what serializeValue returned, with the handle
\* table of the resolver that was consulted (none for a pass-through one).
ParseReturned ==
  /\ pc = "returned"
  /\ wire' = result.tv
  /\ LET tbl == IF handleSerializer = "fallThrough" THEN NoTable ELSE FullTable
     IN /\ handles' = tbl
        /\ decoded' = parseSerializedValue(result.tv, tbl)
  /\ pc' = "roundTripped"
  /\ UNCHANGED <<profile, heap, caller, root, handleSerializer, pushed, visited, startedEmpty,
                 stack, result, serialized>>

\* parseError on what serializeError returned.
ParseError ==
  /\ pc = "errorSerialized"
  /\ decoded' = parseError(serialized)
  /\ pc' = "errorParsed"
  /\ UNCHANGED <<profile, heap, caller, root, handleSerializer, pushed, visited, startedEmpty,
                 stack, result, serialized, wire, handles>>

Next ==
  \/ NewContainer
  \/ AddChild
  \/ AddNewChild
  \/ SerializeValue
  \/ SerializeError
  \/ CallHandleSerializer
  \/ AfterResolve
  \/ CallChild
  \/ FinishContainer
  \/ WireNew
  \/ WireAdd
  \/ ParseReceived
  \/ ParseReturned
  \/ ParseError

Init == profile = "values" /\ Start
InitGraphs == profile = "graphs" /\ Start

Spec == Init /\ [][Next]_vars
SpecGraphs == InitGraphs /\ [][Next]_vars

----------------------------------------------------------------------------
\* The value graph under a value, for stating the properties.

Children(hp, i) == {hp[i].kids[j].id : j \in {x \in DOMAIN hp[i].kids : IsRef(hp[i].kids[x])}}
RECURSIVE Closure(_, _)
Closure(hp, S) ==
  LET N == S \cup UNION {Children(hp, i) : i \in S}
  IN IF N = S THEN S ELSE Closure(hp, N)
\* The arrays and objects reachable from a value, itself included.
Containers(hp, value) == IF IsRef(value) THEN Closure(hp, {value.id}) ELSE {}
\* Some array or object under the value is reachable from itself.
Cyclic(hp, value) ==
  \E i \in Containers(hp, value) : i \in Closure(hp, Children(hp, i)) /\ Children(hp, i) # {}
\* The leaves under a value, itself included.
LeavesOf(hp, value) ==
  IF IsRef(value)
  THEN UNION {{hp[i].kids[j] : j \in {x \in DOMAIN hp[i].kids : ~IsRef(hp[i].kids[x])}}
                : i \in Containers(hp, value)}
  ELSE {value}
\* The places (container, index) that hold a reference to container x.
Occurrences(hp, value, x) ==
  {<<i, j>> \in Containers(hp, value) \X (1..(MaxEdges + 1)) :
     j \in DOMAIN hp[i].kids /\ hp[i].kids[j] = Ref(x)}
\* The native value an acyclic graph denotes, as a decoder would build it.
RECURSIVE Unfold(_, _)
Unfold(hp, value) ==
  IF ~IsRef(value) THEN value
  ELSE IF hp[value.id].t = "array"
       THEN ArrayOf([j \in DOMAIN Kids(hp, value) |-> Unfold(hp, Kids(hp, value)[j])])
       ELSE ObjectOf([j \in DOMAIN Kids(hp, value) |->
                        [k |-> KeyName(j), v |-> Unfold(hp, Kids(hp, value)[j])]])

CircularError == Thrown("Argument is a circular structure")
UnexpectedValue == Thrown("Unexpected value")
\* A direct top-level call with a pass-through resolver and an empty visited set.
PassThroughCall ==
  caller = "serializeValue" /\ handleSerializer = "fallThrough" /\ startedEmpty

----------------------------------------------------------------------------
\* C1: round trip. For every value built from numbers, strings, booleans,
\* null, undefined, dates, regexes, arrays and plain objects, without cycles
\* or handles, decoding (no handle table) what a pass-through call encoded
\* gives back a value equal to the original, -0 and NaN included.
C1_RoundTrip ==
  (pc = "roundTripped" /\ PassThroughCall /\ LeavesOf(heap, root) \subseteq PlainLeaves)
    => decoded = Ok(Unfold(heap, root))

\* C2: cycle rejection, as claimed. A pass-through call on a graph in which an
\* array or object reaches itself never returns, ends with the circular
\* structure error, and never nests deeper than the graph has containers.
C2_CycleRejection ==
  (PassThroughCall /\ Cyclic(heap, root))
    => /\ pc \in {"encoding", "thrown"}
       /\ pc = "thrown" => result = CircularError
       /\ Len(stack) <= Cardinality(Containers(heap, root)) + 1

\* C2, amended: such a call never returns and never nests deeper than the graph
\* has containers; it ends with the circular structure error when the graph
\* holds no function, and with that error or "Unexpected value" when it does.
C2_CycleRejectionAmended ==
  (PassThroughCall /\ Cyclic(heap, root))
    => /\ pc \in {"encoding", "thrown"}
       /\ pc = "thrown" => result \in {CircularError, UnexpectedValue}
       /\ (pc = "thrown" /\ LeavesOf(heap, root) \cap Functions = {}) => result = CircularError
       /\ Len(stack) <= Cardinality(Containers(heap, root)) + 1

\* A cycle through an intermediate container has been rejected.
C2_Witness ==
  /\ PassThroughCall /\ Cyclic(heap, root)
  /\ pc = "thrown" /\ result = CircularError
  /\ Occurrences(heap, root, 1) # {}
  /\ \A o \in Occurrences(heap, root, 1) : o[1] # 1

\* C3: the visited set is unwound by every top-level call: empty at the start
\* means empty at the exit, by return or by throw, so that it is empty before
\* every call of a caller that reuses its set.
C3_VisitedUnwound ==
  /\ (pc \in {"returned", "thrown", "roundTripped"} /\ caller = "serializeValue"
        /\ startedEmpty) => visited = {}
  /\ (pc = "encoding" /\ caller = "serializeValue") => startedEmpty

\* Some array or object under the value is referenced from two places.
Shared(hp, value) ==
  \E x \in Containers(hp, value) : Cardinality(Occurrences(hp, value, x)) >= 2
\* The pairs (container, its encoding) met when walking a graph and its
\* encoding together.
RECURSIVE Encodings(_, _, _)
Encodings(hp, value, tv) ==
  IF ~IsRef(value)
  THEN {}
  ELSE {<<value.id, tv>>}
         \cup UNION {Encodings(hp, Kids(hp, value)[j], WireChildren(tv)[j])
                       : j \in DOMAIN Kids(hp, value) \cap DOMAIN WireChildren(tv)}
Ended == pc \in {"returned", "thrown", "roundTripped"}

\* C4: sibling reuse, as claimed. A pass-through call on an acyclic graph in
\* which an array or object is referenced from two places returns, and every
\* occurrence of a shared object has the same encoding.
C4_SiblingReuse ==
  (PassThroughCall /\ Ended /\ ~Cyclic(heap, root) /\ Shared(heap, root))
    => /\ result.kind = "return"
       /\ \A p, q \in Encodings(heap, root, result.tv) : p[1] = q[1] => p[2] = q[2]

\* C4, amended: the same for a graph that holds no function; with a function
\* in the graph the call fails with "Unexpected value", never with the
\* circular structure error.
C4_SiblingReuseAmended ==
  (PassThroughCall /\ Ended /\ ~Cyclic(heap, root) /\ Shared(heap, root))
    => IF LeavesOf(heap, root) \cap Functions = {}
       THEN /\ result.kind = "return"
            /\ \A p, q \in Encodings(heap, root, result.tv) : p[1] = q[1] => p[2] = q[2]
       ELSE result = UnexpectedValue

\* An object shared by two different containers has been encoded twice.
C4_Witness ==
  /\ PassThroughCall /\ pc = "returned" /\ ~Cyclic(heap, root)
  /\ \E x \in Containers(heap, root) :
       \E p, q \in Occurrences(heap, root, x) : p[1] # q[1]

\* What the top invocation hands to its caller when it returns tv.
Delivered(tv) ==
  IF Len(stack) = 1
  THEN /\ pc' = IF caller = "serializeError" THEN "errorSerialized" ELSE "returned"
       /\ result' = Returned(tv)
       /\ stack' = <<>>
  ELSE /\ pc' = "encoding"
       /\ Len(stack') = Len(stack) - 1
       /\ SubSeq(stack', 1, Len(stack) - 2) = SubSeq(stack, 1, Len(stack) - 2)
       /\ stack'[Len(stack')].i = stack[Len(stack) - 1].i + 1
       /\ LET a == stack'[Len(stack')].a
          IN /\ Len(a) = Len(stack[Len(stack) - 1].a) + 1
             /\ SubSeq(a, 1, Len(a) - 1) = stack[Len(stack) - 1].a
             /\ a[Len(a)] \in {tv, [k |-> KeyName(Len(a)), v |-> tv]}

\* C5: handle indirection. Whenever the resolver has answered an invocation
\* with a handle index k, the invocation's next step returns exactly {h: k} to
\* its caller: it throws nothing (whatever the value is, in the visited set or
\* unclassifiable), leaves the visited set alone, starts no invocation on a
\* child and does not consult the resolver again.
C5_HandleIndirection ==
  [][(pc = "encoding" /\ Top.at = "resolved" /\ "h" \in DOMAIN Top.handle)
       => /\ Delivered([h |-> Top.handle.h])
          /\ visited' = visited
          /\ pushed' = pushed]_vars

\* An array that holds itself has been encoded, the inner occurrence as a handle.
C5_Witness ==
  /\ pc = "returned" /\ IsRef(root)
  /\ Kids(heap, root) # <<>> /\ Kids(heap, root)[1] = root
  /\ WireChildren(result.tv) # <<>>
  /\ WireChildren(result.tv)[1] = [h |-> 0]

\* C9: unexpected value, as claimed. An invocation the resolver let fall
\* through on a function or a symbol throws "Unexpected value", which ends
\* the top-level call.
C9_UnexpectedValue ==
  [][(pc = "encoding" /\ Top.at = "resolved" /\ "fallThrough" \in DOMAIN Top.handle
        /\ Top.handle.fallThrough.t \in {"function", "symbol"})
       => (pc' = "thrown" /\ result' = UnexpectedValue /\ stack' = <<>>)]_vars

\* C9, amended: so it is for a function; a symbol is classified first and is
\* encoded as {v: 'undefined'}.
C9_UnexpectedValueAmended ==
  [][(pc = "encoding" /\ Top.at = "resolved" /\ "fallThrough" \in DOMAIN Top.handle)
       => /\ Top.handle.fallThrough.t = "function"
               => (pc' = "thrown" /\ result' = UnexpectedValue /\ stack' = <<>>)
          /\ Top.handle.fallThrough.t = "symbol"
               => Delivered([v |-> "undefined"])]_vars

\* A function nested in an array or object has ended the call.
C9_Witness ==
  /\ pc = "thrown" /\ result = UnexpectedValue /\ IsRef(root)
  /\ LeavesOf(heap, root) \cap Functions # {}

\* C10: the visited set is the current recursion path. In a top-level call
\* started with an empty set, while no failure has occurred, the set holds
\* exactly the arrays and objects whose loops are running, which are all the
\* invocations below the top one; so when an invocation begins, the set is
\* exactly the set of its ancestors.
C10_VisitedIsPath ==
  (pc = "encoding" /\ startedEmpty)
    => /\ \A j \in 1..(Len(stack) - 1) : stack[j].at = "loop" /\ IsRef(stack[j].value)
       /\ visited = {stack[j].value.id : j \in {x \in DOMAIN stack : stack[x].at = "loop"}}
       /\ Top.at \in {"entry", "resolved"}
            => Cardinality(visited) = Len(stack) - 1

\* An invocation begins below the root, after a sibling array or object was
\* completed and removed from the set.
C10_Witness ==
  /\ pc = "encoding" /\ startedEmpty /\ Len(stack) = 2 /\ Top.at = "entry"
  /\ stack[1].i >= 1 /\ IsRef(Kids(heap, root)[1]) /\ Kids(heap, root)[1] # root
  /\ visited = {root.id}

----------------------------------------------------------------------------
\* Tagged values, for stating the decoder's properties.

IsHandle(tv) == DOMAIN tv = {"h"}
\* No recognised alternative is set.
IsMalformed(tv) ==
  /\ DOMAIN tv \cap {"n", "s", "b", "d", "r", "a", "o", "h"} = {}
  /\ "v" \in DOMAIN tv => tv.v \notin SpecialNames
\* The nodes of a tagged value, itself included.
RECURSIVE WireNodes(_)
WireNodes(tv) ==
  {tv} \cup UNION {WireNodes(WireChildren(tv)[j]) : j \in DOMAIN WireChildren(tv)}
\* The pair of an object that decides the value of its key: the last one.
Decides(o, j) == \A i \in DOMAIN o : o[i].k = o[j].k => i <= j
PropertyOf(val, key) == val.p[CHOOSE i \in DOMAIN val.p : val.p[i].k = key].v
\* Every handle node of tv has, at its place in the decoded val, the entry of
\* the table it names.
RECURSIVE HandlesResolved(_, _, _)
HandlesResolved(tv, val, tbl) ==
  IF IsHandle(tv) THEN val = tbl.table[tv.h + 1]
  ELSE IF "a" \in DOMAIN tv
       THEN /\ val.t = "array" /\ Len(val.e) = Len(tv.a)
            /\ \A j \in DOMAIN tv.a : HandlesResolved(tv.a[j], val.e[j], tbl)
  ELSE IF "o" \in DOMAIN tv
       THEN /\ val.t = "object"
            /\ \A j \in DOMAIN tv.o :
                 Decides(tv.o, j) =>
                   /\ \E i \in DOMAIN val.p : val.p[i].k = tv.o[j].k
                   /\ HandlesResolved(tv.o[j].v, PropertyOf(val, tv.o[j].k), tbl)
  ELSE TRUE

\* C6: handle resolution on decode. With a table that has an entry for every
\* index, a tagged value whose nodes are all well formed decodes, and every
\* handle node {h: k}, at the top or nested, decodes at its place to the
\* table's k-th entry. With no table, the decoder applied to a handle node
\* fails with "Unexpected handle", and a tagged value that holds a handle node
\* decodes to no value at all: the decode fails, with "Unexpected handle"
\* when all its nodes are well formed.
C6_HandleResolution ==
  pc = "parsed" =>
    /\ handles.defined =>
         /\ ((\A n \in WireNodes(wire) : ~IsMalformed(n)) => IsOk(decoded))
         /\ IsOk(decoded) => HandlesResolved(wire, decoded.ok, handles)
    /\ (~handles.defined /\ \E n \in WireNodes(wire) : IsHandle(n)) =>
         /\ ~IsOk(decoded)
         /\ \A n \in WireNodes(wire) :
              IsHandle(n) => parseSerializedValue(n, handles) = Err("Unexpected handle")
         /\ (\A n \in WireNodes(wire) : ~IsMalformed(n)) => decoded = Err("Unexpected handle")

\* A handle nested two levels deep has been resolved through the table.
C6_Witness ==
  /\ pc = "parsed" /\ handles.defined
  /\ wire = [a |-> <<[o |-> <<[k |-> "k2", v |-> [h |-> 1]]>>]>>]
  /\ decoded = Ok(ArrayOf(<<ObjectOf(<<[k |-> "k2", v |-> Remote(1)]>>)>>))

\* C7: malformed input rejection. A tagged value with a node in which no
\* recognised alternative is set (no field at all, or only v with an unknown
\* name), at the top or nested, never decodes to a value: the decode fails,
\* with "Unexpected value" unless a handle node met without a table fails first.
C7_MalformedRejected ==
  (pc = "parsed" /\ \E n \in WireNodes(wire) : IsMalformed(n)) =>
    /\ decoded \in {Err("Unexpected value"), Err("Unexpected handle")}
    /\ (handles.defined \/ \A n \in WireNodes(wire) : ~IsHandle(n))
         => decoded = Err("Unexpected value")

\* An unknown special name nested in an object, after a well-formed pair,
\* has been rejected.
C7_Witness ==
  /\ pc = "parsed"
  /\ wire = [o |-> <<[k |-> "k1", v |-> [n |-> "0"]], [k |-> "k2", v |-> [v |-> "bogus"]]>>]
  /\ decoded = Err("Unexpected value")

\* C8: error adapter round trip. serializeError populates exactly one of
\* error / value, and parseError of it gives back: for a timeout error, a
\* timeout error with the message and stack; for another error, a generic
\* error with the message and stack; for a value that is no error (built as
\* for C1), a value equal to the original.
C8_ErrorRoundTrip ==
  /\ pc \in {"errorSerialized", "errorParsed"} =>
       ("error" \in DOMAIN serialized) # ("value" \in DOMAIN serialized)
  /\ (pc = "errorParsed" /\ root.t = "error") =>
       decoded = Ok(ErrorOf(IF root.kind = "TimeoutError" THEN "TimeoutError" ELSE "Error",
                            root.message, root.stack))
  /\ (pc = "errorParsed" /\ root.t # "error" /\ LeavesOf(heap, root) \subseteq PlainLeaves) =>
       decoded = Ok(Unfold(heap, root))

====
